---------------------------- MODULE Spec2Model ----------------------------
(***************************************************************************)
(* Rabin content-defined chunker (src/rabin.go, first revision of the      *)
(* file, lines 1-230) driven through the Chunker interface                 *)
(* (src/chunker.go) against the readers of the test suite                  *)
(* (src/unnamed/part_001).                                                 *)
(*                                                                         *)
(* A Poly (uint64 coefficient vector over GF(2)) is modelled as the set of *)
(* the positions of its set bits, a subset of 0..63: XOR is symmetric      *)
(* difference, OR is union, a shift moves every position and drops the     *)
(* ones that leave the 64-bit word.                                        *)
(***************************************************************************)
EXTENDS Integers, Sequences, FiniteSets, TLC

(***************************************************************************)
(* Program constants, src/rabin.go and src/chunker.go.                     *)
(***************************************************************************)
KiB == 1024
MiB == 1024 * 1024
avgSize == 1 * MiB
winSize == 64
WordBits == 0..63

Pow2(n) == 2 ^ n

\* The bits of a non-negative integer below 2^31.
PolyOfInt(n) == {i \in 0..30 : n >= Pow2(i) /\ (n \div Pow2(i)) % 2 = 1}

\* byte(p): the low 8 bits of the word, as a number 0..255.
RECURSIVE SumPow2(_)
SumPow2(s) ==
    IF s = {} THEN 0
    ELSE LET i == CHOOSE x \in s : TRUE IN Pow2(i) + SumPow2(s \ {i})

ByteOf(p) == SumPow2(p \cap (0..7))

\* The word whose hexadecimal digits, most significant first, are ds.
RECURSIVE PolyOfHex(_)
PolyOfHex(ds) ==
    IF ds = <<>> THEN {}
    ELSE LET n    == Len(ds)
             rest == PolyOfHex(SubSeq(ds, 1, n - 1))
         IN  ({i + 4 : i \in rest} \cap WordBits) \cup PolyOfInt(ds[n])

\* defaultPoly = Poly(0x3DA3358B4DC173)
defaultPoly == PolyOfHex(<<3, 13, 10, 3, 3, 5, 8, 11, 4, 13, 12, 1, 7, 3>>)

\* mask = avgSize - 1
mask == PolyOfInt(avgSize - 1)

Xor(p, q) == (p \ q) \cup (q \ p)
Shl(p, k) == {i + k : i \in p} \cap WordBits
Shr(p, k) == {i - k : i \in p} \cap WordBits

\* bits.Len64(p) - 1 for p /= 0: the highest set bit at or below i
RECURSIVE HighBit(_, _)
HighBit(p, i) == IF i \in p THEN i ELSE HighBit(p, i - 1)

\* deg returns degree of a polynomial p and -1 if p == 0
deg(p) == IF p = {} THEN -1 ELSE HighBit(p, 63)

\* the loop of mod: for dp := deg(p); dp >= dq; dp = deg(p)
RECURSIVE modLoop(_, _, _, _)
modLoop(p, dp, q, dq) ==
    IF dp >= dq
    THEN LET p1 == Xor(p, Shl(q, dp - dq)) IN modLoop(p1, deg(p1), q, dq)
    ELSE p

mod(p, q) == modLoop(p, deg(p), q, deg(q))

appendByte(sum, b, poly) == mod(Shl(sum, 8) \cup PolyOfInt(b), poly)

\* for i := 0; i < n; i++ { h = appendByte(h, 0, poly) }
\* (h is a word in every round; asking so settles its value before the
\* next round is entered)
RECURSIVE AppendZeros(_, _, _)
AppendZeros(h, n, poly) ==
    IF n = 0 \/ h \notin SUBSET WordBits
    THEN h
    ELSE AppendZeros(appendByte(h, 0, poly), n - 1, poly)

\* calcTables(poly, winSize) (outTable, modTable)
calcTables(poly, w) ==
    LET k == deg(poly)
    IN  [out |-> [b \in 0..255 |->
                    AppendZeros(appendByte({}, b, poly), w - 1, poly)],
         mod |-> [b \in 0..255 |->
                    LET p == Shl(PolyOfInt(b), k) IN mod(p, poly) \cup p]]

Tables == calcTables(defaultPoly, winSize)


\* NewRabinWithParams: shift = deg(defaultPoly) - 8
shift == deg(defaultPoly) - 8

(***************************************************************************)
(* Bounds of the model.                                                    *)
(***************************************************************************)
\* longest stream a reader holds
MaxLen == 4
\* largest max chunk size given to NewRabinWithParams
MaxSize == 3
\* largest staging buffer (bufSize is 512 KiB in the source; the model
\* lets it range over 1..MaxBufSize so that chunks span several fills)
MaxBufSize == 2
\* Next calls a caller still makes after a call returned an error
MaxErrCalls == 2
\* bytes slid into the window when the fingerprint is driven by itself
MaxSlides == 66
\* how many of them, the first ones, are chosen freely
MaxFree == 2

\* Byte values the readers deliver.  After the sentinel byte of Reset the
\* digest matches the mask exactly when the last two bytes are 0 and the
\* low nibble of the byte before them is 0, so both values are needed to
\* have chunks end at fingerprint matches and at the size limits.
Bytes == {0, 16}

(***************************************************************************)
(* Errors.                                                                 *)
(***************************************************************************)
Nil == "nil"
EOF == "io.EOF"
ErrUnexpectedEOF == "io.ErrUnexpectedEOF"
ErrRead == "error on read"
Terms == {EOF, ErrUnexpectedEOF, ErrRead}

Min2(a, b) == IF a <= b THEN a ELSE b

(***************************************************************************)
(* Readers.  A reader holds `data`, has delivered `index` bytes of it and  *)
(* ends with the error `term` (errorReader ends with "error on read",     *)
(* bytes.Reader with io.EOF).  io.Reader lets a reader return fewer bytes  *)
(* than asked (at most maxRead per call here) and lets it return its final *)
(* bytes together with the error (withData) or in a call of their own.     *)
(* Err and Used are the fields of the gentleReader wrapped around it.      *)
(***************************************************************************)
NewReader(data, term, withData, maxRead) ==
    [data |-> data, index |-> 0, term |-> term, withData |-> withData,
     maxRead |-> maxRead, Err |-> Nil, Used |-> FALSE]

NoReader == NewReader(<<>>, Nil, FALSE, 0)

\* The wrapped reader's Read(p) with len(p) = n >= 1.
ReaderRead(rd, n) ==
    LET avail == Len(rd.data) - rd.index
        k     == Min2(Min2(n, avail), rd.maxRead)
    IN  IF avail = 0
        THEN [rd |-> rd, p |-> <<>>, err |-> rd.term]
        ELSE [rd  |-> [rd EXCEPT !.index = rd.index + k],
              p   |-> SubSeq(rd.data, rd.index + 1, rd.index + k),
              err |-> IF rd.withData /\ k = avail THEN rd.term ELSE Nil]

\* gentleReader.Read
\* n, r.Err = r.Reader.Read(p); return n, r.Err
gentleLatch(res) ==
    [rd |-> [res.rd EXCEPT !.Err = res.err], p |-> res.p, err |-> res.err]

gentleRead(rd, n) ==
    gentleLatch(ReaderRead(IF rd.Err /= Nil THEN [rd EXCEPT !.Used = TRUE]
                           ELSE rd, n))

\* io.ReadFull(r, buf) with len(buf) = n: reads until n bytes or an error;
\* a full buffer drops the error, a short one turns io.EOF into
\* io.ErrUnexpectedEOF.
RECURSIVE ReadLoop(_, _, _, _)
ReadMore(res, got, n) == ReadLoop(res.rd, got \o res.p, res.err, n)

ReadLoop(rd, got, err, n) ==
    IF Len(got) < n /\ err = Nil
    THEN ReadMore(gentleRead(rd, n - Len(got)), got, n)
    ELSE [rd  |-> rd,
          p   |-> got,
          err |-> IF Len(got) >= n THEN Nil
                  ELSE IF Len(got) > 0 /\ err = EOF THEN ErrUnexpectedEOF
                  ELSE err]

ReadFull(rd, n) == ReadLoop(rd, <<>>, Nil, n)

(***************************************************************************)
(* Byte slices.  A slice is the memory from its first element to the end   *)
(* of its backing array (mem, Len(mem) is the capacity), its length, and   *)
(* whether that array is the one the caller passed to Next.                *)
(***************************************************************************)
NilSlice == [mem |-> <<>>, len |-> 0, caller |-> FALSE]

\* make([]byte, n) as the tests pass it, holding the caller's old content
MakeBuf(n) == [mem |-> [i \in 1..n |-> 255], len |-> n, caller |-> TRUE]

\* s[:0]
Trunc0(s) == [s EXCEPT !.len = 0]

SliceData(s) == SubSeq(s.mem, 1, s.len)

\* append(s, bs...): in place when the capacity allows, else a new array
SliceAppend(s, bs) ==
    IF s.len + Len(bs) <= Len(s.mem)
    THEN [s EXCEPT !.mem = [i \in 1..Len(s.mem) |->
                              IF i > s.len /\ i <= s.len + Len(bs)
                              THEN bs[i - s.len] ELSE s.mem[i]],
                   !.len = s.len + Len(bs)]
    ELSE [mem |-> SliceData(s) \o bs, len |-> s.len + Len(bs), caller |-> FALSE]

(***************************************************************************)
(* The rabin struct.  The arrays window and buf are sequences, so element  *)
(* i of the source is element i + 1 here; the tables out and mod are       *)
(* Tables.out and Tables.mod.                                              *)
(***************************************************************************)
\* r.buf[lo:hi]
BufSlice(r, lo, hi) == SubSeq(r.buf, lo + 1, hi)

bufLen(r) == Len(r.buf)

\* NewRabinWithParams(min, max), with a staging buffer of n bytes
NewRabinWithParams(min, max, n) ==
    [window    |-> [i \in 1..winSize |-> 0],
     wpos      |-> 0,
     rd        |-> NoReader,
     err       |-> Nil,
     bpos      |-> 0,
     start     |-> 0,
     end       |-> 0,
     buf       |-> [i \in 1..n |-> 0],
     lastChunk |-> NilSlice,
     min       |-> min,
     max       |-> max,
     digest    |-> {}]

\* append that takes the index into the mod table one bit too high.
appendShift(r, b) ==
    LET index == ByteOf(Shr(r.digest, shift + 1))
    IN  [r EXCEPT !.digest =
            Xor(Shl(r.digest, 8) \cup PolyOfInt(b), Tables.mod[index])]

\* append that leaves the reduction out: the shifted digest is not folded
\* back under the degree of the polynomial.
appendNoMod(r, b) ==
    [r EXCEPT !.digest = Shl(r.digest, 8) \cup PolyOfInt(b)]

\* rabin.append
append(r, b) ==
    LET index == ByteOf(Shr(r.digest, shift))
    IN  [r EXCEPT !.digest =
            Xor(Shl(r.digest, 8) \cup PolyOfInt(b), Tables.mod[index])]

\* slide that leaves the contribution of the byte that leaves the window
\* in the digest.
slideKeep(r, b) ==
    append([r EXCEPT !.window[r.wpos + 1] = b,
                     !.wpos = (r.wpos + 1) % winSize],
           b)

\* slide that takes the byte that leaves the window from the first cell of
\* the window, wherever the window's position is.
slideFirst(r, b) ==
    append([r EXCEPT !.window[r.wpos + 1] = b,
                     !.digest = Xor(r.digest, Tables.out[r.window[1]]),
                     !.wpos   = (r.wpos + 1) % winSize],
           b)

\* rabin.slide
slide(r, b) ==
    LET out == r.window[r.wpos + 1]
    IN  append([r EXCEPT !.window[r.wpos + 1] = b,
                         !.digest = Xor(r.digest, Tables.out[out]),
                         !.wpos   = (r.wpos + 1) % winSize],
               b)

\* rabin.Reset
Reset(r, br) ==
    slide([r EXCEPT !.rd = br, !.digest = {}, !.bpos = 0, !.end = 0], 1)

\* The boundary test with a mask of 8 bits in place of mask.
AtBoundaryByte(digest) == digest \cap PolyOfInt(255) = {}

\* r.digest&mask == 0
AtBoundary(digest) == digest \cap mask = {}

\* rabin.updateBuf after the append: the fill of the staging buffer with
\* what io.ReadFull read (res), and whether anything was read.
filled(r, res) ==
    [r  |-> [r EXCEPT
               !.bpos  = 0,
               !.start = 0,
               !.end   = Len(res.p),
               !.rd    = res.rd,
               !.buf   = [i \in 1..bufLen(r) |->
                            IF i <= Len(res.p) THEN res.p[i] ELSE r.buf[i]],
               !.err   = IF res.err = ErrUnexpectedEOF THEN EOF ELSE res.err],
     ok |-> Len(res.p) /= 0,
     panic |-> FALSE]

\* updateBuf that forgets the bytes consumed from the staging buffer
\* instead of carrying them over into lastChunk.
updateBufNoCarry(r) ==
    IF r.err /= Nil
    THEN [r |-> r, ok |-> FALSE, panic |-> FALSE]
    ELSE filled(r, ReadFull(r.rd, bufLen(r)))

\* updateBuf that rewinds the cursor before it looks at the latched error
\* (the order of gear.updateBuf), leaving end as it was.
updateBufRewind(r) ==
    IF r.err /= Nil
    THEN [r |-> [r EXCEPT !.bpos = 0, !.start = 0], ok |-> FALSE,
          panic |-> FALSE]
    ELSE filled([r EXCEPT !.lastChunk =
                             SliceAppend(r.lastChunk,
                                         BufSlice(r, r.start, r.bpos))],
                ReadFull(r.rd, bufLen(r)))

\* updateBuf that carries the consumed bytes over to the start of
\* lastChunk: append(r.lastChunk[:0], ...).
updateBufTrunc(r) ==
    IF r.err /= Nil
    THEN [r |-> r, ok |-> FALSE, panic |-> FALSE]
    ELSE filled([r EXCEPT !.lastChunk =
                             SliceAppend(Trunc0(r.lastChunk),
                                         BufSlice(r, r.start, r.bpos))],
                ReadFull(r.rd, bufLen(r)))

\* rabin.updateBuf: [r, ok, panic].  The slice r.buf[r.start:r.bpos] of
\* the append panics (slice bounds out of range) when r.start > r.bpos.
updateBuf(r) ==
    IF r.err /= Nil
    THEN [r |-> r, ok |-> FALSE, panic |-> FALSE]
    ELSE IF r.start > r.bpos
    THEN [r |-> r, ok |-> FALSE, panic |-> TRUE]
    ELSE filled([r EXCEPT !.lastChunk =
                             SliceAppend(r.lastChunk,
                                         BufSlice(r, r.start, r.bpos))],
                ReadFull(r.rd, bufLen(r)))

\* What a Next call gives back: the chunker after it, the chunk (Nil for a
\* nil chunk), the error, and whether the call panicked instead of
\* returning.
NilChunk == [isNil |-> TRUE, Cut |-> {}, Data |-> NilSlice]
Returned(r, c, e) == [r |-> r, chunk |-> c, err |-> e, panic |-> FALSE]
Panicked(r) == [r |-> r, chunk |-> NilChunk, err |-> Nil, panic |-> TRUE]

\* &Chunk{Cut: uint64(r.digest), Data: r.lastChunk} with r.lastChunk = lc
chunkOf(r, lc, e) ==
    Returned([r EXCEPT !.lastChunk = lc],
             [isNil |-> FALSE, Cut |-> r.digest, Data |-> lc], e)

\* chunk that hands the latched error back together with the chunk.
chunkWithErr(r) ==
    chunkOf(r, SliceAppend(r.lastChunk, BufSlice(r, r.start, r.bpos)), r.err)

\* rabin.chunk
chunk(r) ==
    chunkOf(r, SliceAppend(r.lastChunk, BufSlice(r, r.start, r.bpos)), Nil)

\* chomp that gives up the bytes of an unfinished chunk at end-of-stream
\* as it does at any other error.
chompDrop(r) ==
    IF r.err = Nil THEN chunk(r) ELSE Returned(r, NilChunk, r.err)

\* rabin.chomp
chomp(r) ==
    IF r.err = Nil \/ r.err = EOF THEN chunk(r)
    ELSE Returned(r, NilChunk, r.err)

\* r.slide(r.buf[r.bpos]); r.bpos++
bposInc(r) == [r EXCEPT !.bpos = r.bpos + 1]

SlideNext(r) == bposInc(slide(r, r.buf[r.bpos + 1]))

\* rabin.Next, second loop: for ; count <= r.max; count++
RECURSIVE maxLoop(_, _)
\* ... if r.bpos == r.end && !r.updateBuf() { return r.chomp() }
maxFilled(u, count) ==
    IF u.panic THEN Panicked(u.r)
    ELSE IF ~u.ok THEN chomp(u.r) ELSE maxLoop(u.r, count + 1)

\* ... the body of the loop after r.slide(r.buf[r.bpos]); r.bpos++
maxSlid(r, count) ==
    IF AtBoundary(r.digest) \/ count = r.max THEN chunk(r)
    ELSE IF r.bpos = r.end THEN maxFilled(updateBuf(r), count)
    ELSE maxLoop(r, count + 1)

\* The second loop running for count < r.max only.
maxLoopShort(r, count) ==
    IF count >= r.max THEN chunk(r)
    ELSE IF r.bpos >= bufLen(r) THEN Panicked(r)
    ELSE maxSlid(SlideNext(r), count)

maxLoop(r, count) ==
    IF count > r.max THEN chunk(r)
    ELSE IF r.bpos >= bufLen(r) THEN Panicked(r)
    ELSE maxSlid(SlideNext(r), count)

\* The step between the loops ending the chunk where the staging buffer
\* ends instead of refilling it.
afterMinAtFill(r, count) ==
    IF AtBoundary(r.digest) \/ r.bpos = r.end THEN chunk(r)
    ELSE maxLoop(r, count)

\* rabin.Next, between the loops:
\* if r.digest&mask == 0 || r.bpos == r.end && !r.updateBuf() && r.err == io.EOF
afterMinFilled(u, count) ==
    IF u.panic THEN Panicked(u.r)
    ELSE IF ~u.ok /\ u.r.err = EOF THEN chunk(u.r) ELSE maxLoop(u.r, count)

\* The step between the loops without the boundary test at the min-th
\* byte.
afterMinNoTest(r, count) ==
    IF r.bpos = r.end THEN afterMinFilled(updateBuf(r), count)
    ELSE maxLoop(r, count)

afterMin(r, count) ==
    IF AtBoundary(r.digest) THEN chunk(r)
    ELSE IF r.bpos = r.end THEN afterMinFilled(updateBuf(r), count)
    ELSE maxLoop(r, count)

\* The first loop ending the chunk at a fingerprint match before the
\* min-th byte.
RECURSIVE minLoopEager(_, _)
minFilledEager(u, count) ==
    IF u.panic THEN Panicked(u.r)
    ELSE IF ~u.ok THEN chomp(u.r) ELSE minLoopEager(u.r, count + 1)

minSlidEager(r, count) ==
    IF AtBoundary(r.digest) THEN chunk(r)
    ELSE IF r.bpos = r.end /\ count < r.min
         THEN minFilledEager(updateBuf(r), count)
    ELSE minLoopEager(r, count + 1)

minLoopEager(r, count) ==
    IF count > r.min THEN afterMin(r, count)
    ELSE IF r.bpos >= bufLen(r) THEN Panicked(r)
    ELSE minSlidEager(SlideNext(r), count)

\* rabin.Next, first loop: for ; count <= r.min; count++
RECURSIVE minLoop(_, _)
\* ... if r.bpos == r.end && count < r.min && !r.updateBuf() {
\*         return r.chomp() }
minFilled(u, count) ==
    IF u.panic THEN Panicked(u.r)
    ELSE IF ~u.ok THEN chomp(u.r) ELSE minLoop(u.r, count + 1)

\* ... the body of the loop after r.slide(r.buf[r.bpos]); r.bpos++
minSlid(r, count) ==
    IF r.bpos = r.end /\ count < r.min THEN minFilled(updateBuf(r), count)
    ELSE minLoop(r, count + 1)

minLoop(r, count) ==
    IF count > r.min THEN afterMin(r, count)
    ELSE IF r.bpos >= bufLen(r) THEN Panicked(r)
    ELSE minSlid(SlideNext(r), count)

\* The start of a chunk that leaves the buffer of the caller aside.
startChunkAlloc(r, buf) ==
    minLoop([r EXCEPT !.start = r.bpos, !.lastChunk = NilSlice], 1)

\* rabin.Next, after the first fill
startChunk(r, buf) ==
    minLoop([r EXCEPT !.start = r.bpos, !.lastChunk = Trunc0(buf)], 1)

\* rabin.Next
firstFilled(u, buf) ==
    IF u.panic THEN Panicked(u.r)
    ELSE IF ~u.ok THEN Returned(u.r, NilChunk, u.r.err) ELSE startChunk(u.r, buf)

Next(r, buf) ==
    IF r.end = 0 \/ r.bpos = r.end THEN firstFilled(updateBuf(r), buf)
    ELSE startChunk(r, buf)

(***************************************************************************)
(* The gear struct.  Its digest is a uint32, kept here as <<high, low>>:   *)
(* two halves of 16 bits, so that the sum that wraps at 2^32 is computed   *)
(* in numbers that stay small.  Its table holds 256 random uint32 values.  *)
(***************************************************************************)
Half == 65536

\* (x << 1) + t, in uint32
ShlAdd(x, t) ==
    <<(2 * x[1] + t[1] + ((2 * x[2] + t[2]) \div Half)) % Half,
      (2 * x[2] + t[2]) % Half>>

\* The gear struct as its constructor leaves it, with the table the random
\* source gave and a staging buffer of n bytes.
NewGear(table, n) ==
    [rd     |-> NoReader,
     digest |-> <<0, 0>>,
     err    |-> Nil,
     buf    |-> [i \in 1..n |-> 0],
     bpos   |-> 0,
     start  |-> 0,
     end    |-> 0,
     table  |-> table]

\* gear.slide
gearSlide(g, b) == [g EXCEPT !.digest = ShlAdd(g.digest, g.table[b])]

\* gear.Reset
gearReset(g, br) ==
    gearSlide([g EXCEPT !.rd = br, !.digest = <<0, 0>>, !.bpos = 0,
                        !.start = 0, !.end = 0], 1)

\* g.digest&mask == 0, mask being avgSize - 1: the low 16 bits and the
\* bits of the high half below avgSize are 0.
gearAtBoundary(digest) ==
    digest[2] = 0 /\ digest[1] % (avgSize \div Half) = 0

\* gear.updateBuf after the cursor is rewound: the fill of the staging
\* buffer with what io.ReadFull read (res), and whether anything was read.
gearFilled(g, res) ==
    [r  |-> [g EXCEPT
               !.end = Len(res.p),
               !.rd  = res.rd,
               !.buf = [i \in 1..Len(g.buf) |->
                          IF i <= Len(res.p) THEN res.p[i] ELSE g.buf[i]],
               !.err = IF res.err = ErrUnexpectedEOF THEN EOF ELSE res.err],
     ok |-> Len(res.p) /= 0]

gearRewind(g) == [g EXCEPT !.bpos = 0, !.end = 0, !.start = 0]

\* gear.updateBuf: [r, ok]
gearUpdateBuf(g) ==
    IF g.err /= Nil
    THEN [r |-> gearRewind(g), ok |-> FALSE]
    ELSE gearFilled(gearRewind(g), ReadFull(g.rd, Len(g.buf)))

GearNilChunk == [isNil |-> TRUE, Cut |-> <<0, 0>>, Data |-> NilSlice]

\* gear.chunk: &Chunk{Digest: uint64(g.digest), Data: buf}
gearChunk(g, buf) ==
    Returned(g, [isNil |-> FALSE, Cut |-> g.digest, Data |-> buf], Nil)

\* buf = append(buf, g.buf[g.start:g.bpos]...)
gearCarry(g, buf) == SliceAppend(buf, BufSlice(g, g.start, g.bpos))

\* gear.Next, the loop: for { ... }
RECURSIVE gearLoop(_, _)
\* ... if !g.updateBuf() { if g.err == io.EOF { return g.chunk(buf), nil }
\*                         else if g.err != nil { return nil, g.err } }
gearRefilled(u, buf) ==
    IF ~u.ok /\ u.r.err = EOF THEN gearChunk(u.r, buf)
    ELSE IF ~u.ok /\ u.r.err /= Nil THEN Returned(u.r, GearNilChunk, u.r.err)
    ELSE gearLoop(u.r, buf)

\* The refill in the loop without the append of the consumed bytes to buf.
gearAtEndNoCarry(g, buf) == gearRefilled(gearUpdateBuf(g), buf)

\* ... if g.bpos == g.end { buf = append(buf, g.buf[g.start:g.bpos]...) ...
gearAtEnd(g, buf) == gearRefilled(gearUpdateBuf(g), gearCarry(g, buf))

\* ... the body of the loop after g.slide(g.buf[g.bpos]); g.bpos++; a break
\* leads to buf = append(buf, g.buf[g.start:g.bpos]...); return g.chunk(buf)
gearSlid(g, buf) ==
    IF gearAtBoundary(g.digest) THEN gearChunk(g, gearCarry(g, buf))
    ELSE IF g.bpos = g.end THEN gearAtEnd(g, buf)
    ELSE gearLoop(g, buf)

gearLoop(g, buf) ==
    IF g.bpos >= Len(g.buf) THEN Panicked(g)
    ELSE gearSlid(bposInc(gearSlide(g, g.buf[g.bpos + 1])), buf)

\* The start of a chunk that takes the digest back to 0.
gearStartZero(g, buf) ==
    gearLoop([g EXCEPT !.start = g.bpos, !.digest = <<0, 0>>], Trunc0(buf))

\* gear.Next, after the first fill: g.start = g.bpos; buf = buf[:0]
gearStart(g, buf) == gearLoop([g EXCEPT !.start = g.bpos], Trunc0(buf))

gearFirst(u, buf) ==
    IF ~u.ok THEN Returned(u.r, GearNilChunk, u.r.err) ELSE gearStart(u.r, buf)

\* gear.Next
gearNext(g, buf) ==
    IF g.end = 0 \/ g.bpos = g.end THEN gearFirst(gearUpdateBuf(g), buf)
    ELSE gearStart(g, buf)

(***************************************************************************)
(* LazyBuf, with a Buf of n bytes.  The field result is the slice that the *)
(* onUpdate of TestLazyBuf_Next appends to.                                *)
(***************************************************************************)
\* &LazyBuf{Reader: rd, Pos: 0, end: 0, onUpdate: ...}
NewLazyBuf(rd, n) ==
    [rd     |-> rd,
     Buf    |-> [i \in 1..n |-> 0],
     Pos    |-> 0,
     end    |-> 0,
     err    |-> Nil,
     result |-> <<>>]

\* onUpdate: result = append(result, b.Buf[:]...)
lazyOnUpdate(b) == [b EXCEPT !.result = b.result \o b.Buf]

\* LazyBuf.Update from b.end, b.err = io.ReadFull(b.Reader, b.Buf[:]) on
lazyFilled(b, res) ==
    [b  |-> [b EXCEPT
               !.end = Len(res.p),
               !.rd  = res.rd,
               !.Buf = [i \in 1..Len(b.Buf) |->
                          IF i <= Len(res.p) THEN res.p[i] ELSE b.Buf[i]],
               !.err = IF res.err = ErrUnexpectedEOF THEN EOF ELSE res.err],
     ok |-> Len(res.p) /= 0]

lazyRewind(b) == [b EXCEPT !.Pos = 0, !.end = 0]

\* LazyBuf.Update: [b, ok]
lazyUpdate(b) ==
    IF b.err /= Nil
    THEN [b |-> lazyRewind(b), ok |-> FALSE]
    ELSE lazyFilled(lazyRewind(b), ReadFull(b.rd, Len(b.Buf)))

\* x = b.Buf[b.Pos]; b.Pos++; return
lazyTake(b) == [b |-> [b EXCEPT !.Pos = b.Pos + 1], x |-> b.Buf[b.Pos + 1]]

\* A return before x is set gives the zero byte.
lazyNone(b) == [b |-> b, x |-> 0]

\* if !b.Update() { return }
lazyUpdated(u) == IF ~u.ok THEN lazyNone(u.b) ELSE lazyTake(u.b)

\* LazyBuf.Next: [b, x]
lazyNext(b) ==
    IF b.Pos = b.end
    THEN IF b.err /= Nil THEN lazyNone(b)
         ELSE lazyUpdated(lazyUpdate(lazyOnUpdate(b)))
    ELSE lazyTake(b)

(***************************************************************************)
(* The state machine: one chunker, the reader bound to it, and what its    *)
(* caller has seen.                                                        *)
(***************************************************************************)
VARIABLES
    r,        \* the rabin chunker; r.rd is the reader Reset bound to it
    src0,     \* the reader as it was handed to the last Reset
    hist,     \* results of the Next calls since the last Reset
    fresh,    \* TRUE until the chunker is Reset a second time
    used,     \* a reader bound earlier has its Used flag set
    panicked, \* a Next call panicked (index out of range)
    bufCap,   \* capacity of the buffer passed to the Next call that
              \* returned the latest chunk since the last Reset
    slid      \* number of bytes slid into the window since Reset, when
              \* the fingerprint is driven by itself (SpecSlide)

vars == <<r, src0, hist, fresh, used, panicked, bufCap, slid>>

Streams == UNION {[1..n -> Bytes] : n \in 0..MaxLen}
\* A reader either hands out all it is asked for and its error in a call of
\* its own (bytes.Reader, errorReader), or hands out one byte per call and
\* its error together with the last byte.
Readers == {NewReader(d, t, FALSE, MaxLen + 1) : d \in Streams, t \in Terms}
           \cup {NewReader(d, t, TRUE, 1) : d \in Streams, t \in Terms}
\* Buffers the caller passes to Next: nil, or preallocated.
BufArgs == {NilSlice, MakeBuf(MaxBufSize)}

Bound == r.rd /= NoReader

Init ==
    /\ \E max \in 1..MaxSize : \E min \in 1..max : \E n \in 1..MaxBufSize :
          r = NewRabinWithParams(min, max, n)
    /\ src0 = NoReader
    /\ hist = <<>>
    /\ fresh = TRUE
    /\ used = FALSE
    /\ panicked = FALSE
    /\ bufCap = 0
    /\ slid = 0

\* The result a caller keeps of a Next call.
Result(res) ==
    [chunk |-> ~res.chunk.isNil,
     data  |-> SliceData(res.chunk.Data),
     cut   |-> res.chunk.Cut,
     err   |-> res.err,
     panic |-> res.panic]

\* Number of results at the end of h that are errors.
RECURSIVE ErrCalls(_)
ErrCalls(h) ==
    IF h = <<>> \/ h[Len(h)].err = Nil THEN 0
    ELSE 1 + ErrCalls(SubSeq(h, 1, Len(h) - 1))

\* ch.Reset(br) on the freshly constructed chunker.
FirstReset ==
    /\ ~Bound
    /\ \E br \in Readers :
          /\ r' = Reset(r, br)
          /\ src0' = br
    /\ UNCHANGED <<hist, fresh, used, panicked, bufCap, slid>>

\* ch.Reset(br) on a chunker that has been in use, with a new reader over
\* the same stream (as benchNoAllocs does on every iteration).
ReReset ==
    /\ Bound
    /\ fresh
    /\ ~panicked
    /\ r' = Reset(r, src0)
    /\ hist' = <<>>
    /\ fresh' = FALSE
    /\ used' = (used \/ r.rd.Used)
    /\ bufCap' = 0
    /\ UNCHANGED <<src0, panicked, slid>>

\* c, err := ch.Next(buf)
DoNext ==
    /\ Bound
    /\ ~panicked
    /\ ErrCalls(hist) < MaxErrCalls
    /\ \E buf \in BufArgs :
          LET res == Next(r, buf)
          IN  /\ r' = res.r
              /\ hist' = Append(hist, Result(res))
              /\ bufCap' = (IF res.chunk.isNil THEN bufCap ELSE Len(buf.mem))
              /\ panicked' = res.panic
    /\ UNCHANGED <<src0, fresh, used, slid>>

Step == FirstReset \/ ReReset \/ DoNext

Spec == Init /\ [][Step]_vars

\* NewRabinWithParams takes any two sizes: the chunkers a caller can make
\* with min > max included.
InitAnyParams ==
    /\ \E max \in 1..MaxSize : \E min \in 1..MaxSize : \E n \in 1..MaxBufSize :
          r = NewRabinWithParams(min, max, n)
    /\ src0 = NoReader
    /\ hist = <<>>
    /\ fresh = TRUE
    /\ used = FALSE
    /\ panicked = FALSE
    /\ bufCap = 0
    /\ slid = 0

SpecAnyParams == InitAnyParams /\ [][Step]_vars

(***************************************************************************)
(* The fingerprint by itself: a freshly constructed chunker after Reset,   *)
(* and r.slide(b) for one byte after the other, as Next does for the bytes *)
(* of the staging buffer.  The first MaxFree bytes are any of SlideBytes,  *)
(* the ones after them are 0, up to MaxSlides bytes: enough for the        *)
(* sentinel and the bytes after it to leave the window of winSize bytes.   *)
(***************************************************************************)
SlideBytes == {0, 16, 255}

InitSlide ==
    /\ r = Reset(NewRabinWithParams(1, 1, 1), NoReader)
    /\ src0 = NoReader
    /\ hist = <<>>
    /\ fresh = TRUE
    /\ used = FALSE
    /\ panicked = FALSE
    /\ bufCap = 0
    /\ slid = 0

\* r.slide(b)
SlideByte ==
    /\ slid < MaxSlides
    /\ \E b \in (IF slid < MaxFree THEN SlideBytes ELSE {0}) :
          r' = slide(r, b)
    /\ slid' = slid + 1
    /\ UNCHANGED <<src0, hist, fresh, used, panicked, bufCap>>

SpecSlide == InitSlide /\ [][SlideByte]_vars

(***************************************************************************)
(* Whole runs, as TestChunker_Correct makes them: a chunker is built, Reset *)
(* on a reader over a stream, and Next(nil) is called until it returns an  *)
(* error.  The streams are long enough for the window of winSize bytes to  *)
(* fill and turn over: FreePrefix bytes of Bytes, then zeros up to LongLen *)
(* bytes.                                                                  *)
(***************************************************************************)
LongLen == 74
FreePrefix == 4

LongStreams ==
    {p \o [i \in 1..(LongLen - FreePrefix) |-> 0] : p \in [1..FreePrefix -> Bytes]}

LongReader(d) == NewReader(d, EOF, FALSE, Len(d) + 1)

InitLong ==
    /\ \E max \in 1..MaxSize : \E min \in 1..max :
          r = NewRabinWithParams(min, max, MaxBufSize)
    /\ src0 = NoReader
    /\ hist = <<>>
    /\ fresh = TRUE
    /\ used = FALSE
    /\ panicked = FALSE
    /\ bufCap = 0
    /\ slid = 0

\* ch.Reset(gr) on the freshly constructed chunker.
ResetLong ==
    /\ ~Bound
    /\ \E d \in LongStreams :
          /\ r' = Reset(r, LongReader(d))
          /\ src0' = LongReader(d)
    /\ UNCHANGED <<hist, fresh, used, panicked, bufCap, slid>>

\* for { c, err := ch.Next(nil); if err != nil { break }; ... }
\* One round of the loop, on the chunker and the results so far.
nextRound(st, res) ==
    [r     |-> res.r,
     hist  |-> Append(st.hist, Result(res)),
     panic |-> res.panic,
     done  |-> res.err /= Nil \/ res.panic]

nextOne(st) == IF st.done THEN st ELSE nextRound(st, Next(st.r, NilSlice))

\* n rounds unless the loop has ended: the first half of them, then the
\* others.
RECURSIVE nextRounds(_, _)
nextRounds(st, n) ==
    IF st.done THEN st
    ELSE IF n <= 1 THEN nextOne(st)
    ELSE nextRounds(nextRounds(st, n \div 2), n - (n \div 2))

\* The loop to its end: a chunk has at least one byte, so that it makes at
\* most one call more than the stream has bytes.
nextAll(c) ==
    nextRounds([r |-> c, hist |-> <<>>, panic |-> FALSE, done |-> FALSE],
               Len(c.rd.data) + 1)

ChunkAll ==
    /\ Bound
    /\ hist = <<>>
    /\ LET all == nextAll(r)
       IN  /\ r' = all.r
           /\ hist' = all.hist
           /\ panicked' = all.panic
    /\ UNCHANGED <<src0, fresh, used, bufCap, slid>>

SpecResync == InitLong /\ [][ResetLong \/ ChunkAll]_vars

(***************************************************************************)
(* The gear chunker: one chunker with a table of its own, the reader bound *)
(* to it, and what its caller has seen.  The table entries of the bytes    *)
(* that are slid (the bytes of the streams and the 1 of Reset) are any of  *)
(* GearValues, which hold values whose low bits are 0, so that boundaries  *)
(* occur, and values that make the sum wrap.                               *)
(***************************************************************************)
GearValues == {<<0, 0>>, <<8, 0>>, <<32768, 1>>}

GearTables ==
    {[b \in 0..255 |->
        IF b = 0 THEN t0 ELSE IF b = 1 THEN t1 ELSE IF b = 16 THEN t16
        ELSE <<b, b>>] : t0 \in GearValues, t1 \in GearValues,
                         t16 \in GearValues}

InitGear ==
    /\ \E table \in GearTables : \E n \in 1..MaxBufSize :
          r = NewGear(table, n)
    /\ src0 = NoReader
    /\ hist = <<>>
    /\ fresh = TRUE
    /\ used = FALSE
    /\ panicked = FALSE
    /\ bufCap = 0
    /\ slid = 0

\* ch.Reset(br) on the freshly constructed chunker.
GearReset ==
    /\ ~Bound
    /\ \E br \in Readers :
          /\ r' = gearReset(r, br)
          /\ src0' = br
    /\ UNCHANGED <<hist, fresh, used, panicked, bufCap, slid>>

\* c, err := ch.Next(buf)
GearDoNext ==
    /\ Bound
    /\ ~panicked
    /\ ErrCalls(hist) < MaxErrCalls
    /\ \E buf \in BufArgs :
          LET res == gearNext(r, buf)
          IN  /\ r' = res.r
              /\ hist' = Append(hist, Result(res))
              /\ bufCap' = (IF res.chunk.isNil THEN bufCap ELSE Len(buf.mem))
              /\ panicked' = res.panic
    /\ UNCHANGED <<src0, fresh, used, slid>>

SpecGear == InitGear /\ [][GearReset \/ GearDoNext]_vars

(***************************************************************************)
(* TestLazyBuf_Next: a LazyBuf over a bytes.Reader, lb.Update(), and then  *)
(* lb.Next() for as long as lb.err is nil.  fresh holds until lb.Update()  *)
(* has been called; hist holds the bytes the Next calls returned.          *)
(***************************************************************************)
InitLazy ==
    /\ \E d \in Streams : \E n \in 1..MaxBufSize :
          /\ r = NewLazyBuf(NewReader(d, EOF, FALSE, MaxLen + 1), n)
          /\ src0 = NewReader(d, EOF, FALSE, MaxLen + 1)
    /\ hist = <<>>
    /\ fresh = TRUE
    /\ used = FALSE
    /\ panicked = FALSE
    /\ bufCap = 0
    /\ slid = 0

\* lb.Update()
LazyUpdate ==
    /\ fresh
    /\ r' = lazyUpdate(r).b
    /\ fresh' = FALSE
    /\ UNCHANGED <<src0, hist, used, panicked, bufCap, slid>>

\* for lb.err == nil { _ = lb.Next() }
LazyNext ==
    /\ ~fresh
    /\ r.err = Nil
    /\ r' = lazyNext(r).b
    /\ hist' = Append(hist, lazyNext(r).x)
    /\ UNCHANGED <<src0, fresh, used, panicked, bufCap, slid>>

SpecLazy == InitLazy /\ [][LazyUpdate \/ LazyNext]_vars

(***************************************************************************)
(* What the claims speak of.                                               *)
(***************************************************************************)
\* The data of all chunks of h, concatenated.
RECURSIVE Concat(_)
Concat(h) ==
    IF h = <<>> THEN <<>>
    ELSE Concat(SubSeq(h, 1, Len(h) - 1)) \o h[Len(h)].data

IsPrefix(a, b) == Len(a) <= Len(b) /\ a = SubSeq(b, 1, Len(a))

\* The bytes the bound reader has delivered so far.
Delivered == SubSeq(r.rd.data, 1, r.rd.index)

\* The stream ends with end-of-stream (plain or as a short read).
EndsWithEOF(rd) == rd.term \in {EOF, ErrUnexpectedEOF}

\* The results of k Next(nil) calls on chunker c.
RECURSIVE Run(_, _)
Run(c, k) ==
    IF k = 0 THEN <<>>
    ELSE LET res == Next(c, NilSlice)
         IN  IF res.panic THEN <<Result(res)>>
             ELSE <<Result(res)>> \o Run(res.r, k - 1)

\* The results of k Next(nil) calls on a freshly constructed chunker with
\* the parameters (min, max), a staging buffer of n bytes, Reset on br.
FreshRun(br, min, max, n, k) ==
    Run(Reset(NewRabinWithParams(min, max, n), br), k)

\* A chunk that ended by itself: at a fingerprint match at or after min
\* bytes, or at max bytes.
Complete(res) ==
    /\ res.chunk
    /\ \/ Len(res.data) = r.max
       \/ Len(res.data) >= r.min /\ AtBoundary(res.cut)

\* What the caller compares of two results.
Seen(res) == [chunk |-> res.chunk, data |-> res.data, cut |-> res.cut,
              err |-> res.err, panic |-> res.panic]
LenCut(res) == [chunk |-> res.chunk, len |-> Len(res.data), cut |-> res.cut,
                err |-> res.err, panic |-> res.panic]

ErrResult(e) == [chunk |-> FALSE, data |-> <<>>, cut |-> {}, err |-> e,
                 panic |-> FALSE]

\* Claim C1 (reassembly): on a freshly constructed chunker, for a stream
\* that ends with end-of-stream, whatever min <= max and whatever the size
\* of the staging buffer, when Next returns end-of-stream the data of the
\* chunks returned before it, concatenated, are the stream.
C1_Reassembly ==
    (fresh /\ Bound /\ EndsWithEOF(src0)) =>
        \A i \in 1..Len(hist) :
            hist[i].err = EOF => Concat(SubSeq(hist, 1, i - 1)) = src0.data

\* A stream of several chunks, one of them longer than the staging buffer,
\* chunked to its end.
C1_Witness ==
    /\ fresh /\ Bound /\ EndsWithEOF(src0)
    /\ Len(hist) >= 3
    /\ hist[Len(hist)].err = EOF
    /\ hist[1].chunk /\ hist[2].chunk
    /\ \E i \in 1..Len(hist) : Len(hist[i].data) > bufLen(r)
    /\ Concat(hist) = src0.data

\* Claim C2 (prefix safety): whatever the reader ends with, the data of the
\* chunks returned so far, concatenated, are a prefix of the bytes the
\* reader delivered.
C2_PrefixSafety == Bound => IsPrefix(Concat(hist), Delivered)

\* The results a reader that fails after its bytes must give: the chunks of
\* the same bytes that end by themselves, then the error.
RECURSIVE ExpectOnError(_, _)
ExpectOnError(twin, e) ==
    IF twin /= <<>> /\ Complete(twin[1])
    THEN <<Seen(twin[1])>> \o ExpectOnError(Tail(twin), e)
    ELSE <<ErrResult(e)>> \o
         (IF twin = <<>> THEN <<>> ELSE ExpectOnError(Tail(twin), e))

\* Claim C3 (partial chunks are discarded on a hard error): a reader that
\* delivers N bytes and then a non-end-of-stream error gives, in order,
\* exactly the chunks that complete within the N bytes, and the call that
\* runs out of bytes gives the error and no chunk, as does every later one.
C3_DiscardOnError ==
    (fresh /\ Bound /\ src0.term = ErrRead) =>
        LET twin   == FreshRun(NewReader(src0.data, EOF, FALSE, MaxLen + 1),
                               r.min, r.max, bufLen(r), Len(hist))
            expect == ExpectOnError(twin, ErrRead)
        IN  \A i \in 1..Len(hist) : Seen(hist[i]) = expect[i]

\* Claim C4 (size bounds): for a stream that ends with end-of-stream every
\* chunk has 1 <= len(data) <= max, and a chunk shorter than min is the last
\* one of the stream, made of the fewer than min bytes that remained.
C4_SizeBounds ==
    (Bound /\ EndsWithEOF(src0)) =>
        \A i \in 1..Len(hist) :
            hist[i].chunk =>
                /\ 1 <= Len(hist[i].data)
                /\ Len(hist[i].data) <= r.max
                /\ Len(hist[i].data) < r.min =>
                      Len(Concat(SubSeq(hist, 1, i))) = Len(src0.data)

\* With min < max: a chunk of at least min bytes followed by the last chunk
\* of the stream, shorter than min.
C4_Witness ==
    /\ Bound /\ EndsWithEOF(src0)
    /\ Len(hist) >= 2
    /\ hist[1].chunk /\ Len(hist[1].data) >= r.min
    /\ hist[2].chunk /\ Len(hist[2].data) < r.min
    /\ r.min < r.max

\* Claim C5 (Reset reinitialises): after Reset(src) in any state the Next
\* calls give the results a freshly constructed chunker with the same
\* (min, max) gives after Reset on src.
C5_ResetAsFresh ==
    (Bound /\ ~fresh) =>
        LET want == FreshRun(src0, r.min, r.max, bufLen(r), Len(hist))
        IN  /\ Len(want) = Len(hist)
            /\ \A i \in 1..Len(hist) : Seen(hist[i]) = Seen(want[i])

\* Claim C6 (well-behavedness): once a reader has returned an error it is
\* not read again: the Used flag of the wrapping gentleReader stays false.
C6_WellBehaved == ~used /\ ~r.rd.Used

\* Claim C7 (terminal signals are sticky): once a Next call has returned an
\* error, every later Next call before the next Reset returns that error
\* and no chunk.
C7_Sticky ==
    \A i \in 1..Len(hist) : \A j \in 1..Len(hist) :
        (i < j /\ hist[i].err /= Nil) => Seen(hist[j]) = ErrResult(hist[i].err)

\* Chunks, then the error of the reader twice.
C7_Witness ==
    /\ Len(hist) >= 3
    /\ hist[1].chunk
    /\ hist[Len(hist) - 1].err = ErrRead
    /\ hist[Len(hist)].err = ErrRead

\* Claim C8 (exclusive result): a Next call that returns gives a chunk and
\* a nil error, or a nil chunk and a non-nil error.
C8_Exclusive ==
    \A i \in 1..Len(hist) :
        ~hist[i].panic => (hist[i].chunk <=> hist[i].err = Nil)

\* Both kinds of result have been returned.
C8_Witness ==
    /\ \E i \in 1..Len(hist) : hist[i].chunk /\ hist[i].err = Nil
    /\ \E i \in 1..Len(hist) : ~hist[i].chunk /\ hist[i].err = EOF
    /\ src0.term = ErrUnexpectedEOF

\* The error Next gives for the error e of the reader.
Translate(e) == IF e = ErrUnexpectedEOF THEN EOF ELSE e

C10_Determinism ==
    (fresh /\ Bound /\ EndsWithEOF(src0)) =>
        LET want == FreshRun(NewReader(src0.data, EOF, FALSE, MaxLen + 1),
                             r.min, r.max, MaxLen + 1, Len(hist))
        IN  /\ Len(want) = Len(hist)
            /\ \A i \in 1..Len(hist) : LenCut(hist[i]) = LenCut(want[i])

\* A stream read byte by byte into a one-byte staging buffer, with chunks
\* that end at a fingerprint match and at max.
C10_Witness ==
    /\ fresh /\ Bound /\ EndsWithEOF(src0)
    /\ src0.maxRead = 1
    /\ bufLen(r) = 1
    /\ Len(hist) >= 3
    /\ hist[Len(hist)].err = EOF
    /\ \E i \in 1..Len(hist) :
          hist[i].chunk /\ Len(hist[i].data) = r.max
    /\ \E i \in 1..Len(hist) :
          hist[i].chunk /\ Len(hist[i].data) < r.max /\ AtBoundary(hist[i].cut)
             /\ Len(Concat(SubSeq(hist, 1, i))) < Len(src0.data)

\* The digest after Reset and the slides of the bytes bs, one by one.
RECURSIVE SlideAll(_, _)
SlideAll(c, bs) ==
    IF bs = <<>> THEN c ELSE SlideAll(slide(c, Head(bs)), Tail(bs))

DigestAfter(bs) ==
    SlideAll(Reset(NewRabinWithParams(1, 1, 1), NoReader), bs).digest

\* The chunk hist[i] is the last one of the stream: it ends where the bytes
\* of the reader end.
LastOfStream(i) == Len(Concat(SubSeq(hist, 1, i))) >= Len(src0.data)

\* Claim C11 (boundary rule): a chunk that is neither the last chunk of the
\* stream nor max bytes long has a cut D with D & mask = 0, and on the
\* first stream of a chunker that cut is the digest after the slide of
\* the last byte of the chunk.
C11_BoundaryRule ==
    Bound =>
        \A i \in 1..Len(hist) :
            (hist[i].chunk /\ Len(hist[i].data) < r.max /\ ~LastOfStream(i)) =>
                /\ hist[i].cut \cap mask = {}
                /\ fresh =>
                      hist[i].cut = DigestAfter(Concat(SubSeq(hist, 1, i)))

\* A chunk shorter than max, with bytes of the stream left after it, has
\* been returned.
C11_Witness ==
    /\ Bound
    /\ \E i \in 1..Len(hist) :
          /\ hist[i].chunk
          /\ Len(hist[i].data) < r.max
          /\ ~LastOfStream(i)
          /\ hist[i].cut /= {}

\* No position of the stream bs has a digest D with D & mask = 0.
NoBoundary(bs) ==
    \A k \in 1..Len(bs) : DigestAfter(SubSeq(bs, 1, k)) \cap mask /= {}

\* The i-th result of a stream bs without boundaries under the clamp max:
\* Len(bs) \div max chunks of max bytes, the remainder if there is one,
\* then end-of-stream.
Clamped(bs, max, i) ==
    IF (i - 1) * max < Len(bs)
    THEN LET last == Min2(i * max, Len(bs))
         IN  [chunk |-> TRUE,
              data  |-> SubSeq(bs, (i - 1) * max + 1, last),
              cut   |-> DigestAfter(SubSeq(bs, 1, last)),
              err   |-> Nil,
              panic |-> FALSE]
    ELSE ErrResult(EOF)

\* Claim C12 (max clamp): a stream of L bytes without a position where
\* D & mask = 0 is cut, for every min <= max, into L \div max chunks of
\* exactly max bytes, one chunk of L % max bytes when that is not 0, and
\* then end-of-stream; the cut of each chunk is the digest at its end.
C12_MaxClamp ==
    (fresh /\ Bound /\ EndsWithEOF(src0) /\ NoBoundary(src0.data)) =>
        \A i \in 1..Len(hist) :
            Seen(hist[i]) = Clamped(src0.data, r.max, i)

\* A stream without boundaries, cut into chunks of max >= 2 bytes and a
\* shorter remainder, read to end-of-stream.
C12_Witness ==
    /\ fresh /\ Bound /\ EndsWithEOF(src0) /\ NoBoundary(src0.data)
    /\ r.max >= 2
    /\ Len(src0.data) > r.max
    /\ Len(src0.data) % r.max /= 0
    /\ Len(hist) = (Len(src0.data) \div r.max) + 2
    /\ hist[Len(hist)].err = EOF

\* Claim C13 (short streams): for a stream of L <= min bytes that ends with
\* end-of-stream, if L = 0 the first Next returns end-of-stream and no
\* chunk; otherwise the first Next returns one chunk with all L bytes and
\* no error, and the second Next returns end-of-stream and no chunk.
C13_ShortStream ==
    (fresh /\ Bound /\ EndsWithEOF(src0) /\ Len(src0.data) <= r.min) =>
        IF src0.data = <<>>
        THEN Len(hist) >= 1 => Seen(hist[1]) = ErrResult(EOF)
        ELSE /\ Len(hist) >= 1 =>
                   /\ hist[1].chunk
                   /\ hist[1].data = src0.data
                   /\ hist[1].err = Nil
                   /\ ~hist[1].panic
             /\ Len(hist) >= 2 => Seen(hist[2]) = ErrResult(EOF)

\* A stream shorter than min and longer than the staging buffer, read to
\* end-of-stream.
C13_Witness ==
    /\ fresh /\ Bound /\ EndsWithEOF(src0)
    /\ Len(src0.data) >= 1
    /\ Len(src0.data) < r.min
    /\ Len(src0.data) > bufLen(r)
    /\ Len(hist) = 2
    /\ hist[1].chunk
    /\ hist[2].err = EOF

\* Claim C14 (buffer reuse): a chunk returned by Next(buf) with a buffer of
\* capacity at least the length of the chunk has its data in the memory of
\* buf, from its first element on (nothing is allocated); with a nil
\* buffer or one that is too small the data are in newly allocated memory;
\* either way the data are the bytes of the stream that follow the chunks
\* returned before.  (After a Next call that returned a chunk r.lastChunk
\* is the Data of that chunk.)
C14_BufferReuse ==
    (fresh /\ Bound /\ EndsWithEOF(src0) /\ hist /= <<>>) =>
        (hist[Len(hist)].chunk =>
            /\ r.lastChunk.caller <=> bufCap >= r.lastChunk.len
            /\ SliceData(r.lastChunk) = hist[Len(hist)].data
            /\ IsPrefix(Concat(hist), src0.data))

\* A chunk that spans several fills returned in the buffer of the caller.
C14_Witness ==
    /\ fresh /\ Bound /\ EndsWithEOF(src0) /\ hist /= <<>>
    /\ hist[Len(hist)].chunk
    /\ r.lastChunk.caller
    /\ r.lastChunk.len > bufLen(r)

\* Claim C15 (malformed parameters are rejected): NewRabinWithParams(min,
\* max) with min > max gives no chunker that can be used, so a chunk is
\* returned only by a chunker with min <= max and is never longer than max.
C15_MalformedRejected ==
    \A i \in 1..Len(hist) :
        hist[i].chunk => (r.min <= r.max /\ Len(hist[i].data) <= r.max)

\* Number of chunks among the results h.
RECURSIVE Chunks(_)
Chunks(h) ==
    IF h = <<>> THEN 0
    ELSE (IF h[1].chunk THEN 1 ELSE 0) + Chunks(Tail(h))

\* Claim C17 (termination): for a reader that delivers L bytes and then
\* end-of-stream or an error, every Next call returns, at most L of them
\* return a chunk, so that among the first L + 1 calls one returns a
\* terminal signal; and when the stream ends with end-of-stream the call
\* after the one that returned its last bytes returns end-of-stream.
C17_Termination ==
    Bound =>
        LET L == Len(src0.data)
        IN  /\ \A i \in 1..Len(hist) : ~hist[i].panic
            /\ Chunks(hist) <= L
            /\ Len(hist) > L => \E i \in 1..(L + 1) : hist[i].err /= Nil
            /\ (fresh /\ EndsWithEOF(src0)) =>
                  \A i \in 1..(Len(hist) - 1) :
                      (hist[i].chunk /\ Len(Concat(SubSeq(hist, 1, i))) = L)
                          => Seen(hist[i + 1]) = ErrResult(EOF)

\* The digest after the slide of byte k of the stream of the reader has
\* D & mask = 0.
BoundaryAt(k) == DigestAfter(SubSeq(src0.data, 1, k)) \cap mask = {}

\* Claim C18 (earliest boundary): the boundary test is made after each
\* slide from the min-th byte of a chunk on, and the byte that matches
\* belongs to the chunk: a chunk of n bytes has no position n' with
\* min <= n' < n where D & mask = 0, and when it is neither the last chunk
\* of the stream nor max bytes long D & mask = 0 holds at n; also when the
\* chunk spans several fills or its min-th byte is the last of a fill.
C18_EarliestBoundary ==
    (fresh /\ Bound /\ EndsWithEOF(src0)) =>
        \A i \in 1..Len(hist) :
            hist[i].chunk =>
                LET from == Len(Concat(SubSeq(hist, 1, i - 1)))
                    n    == Len(hist[i].data)
                IN  /\ from + n <= Len(src0.data)
                    /\ \A k \in r.min..(n - 1) : ~BoundaryAt(from + k)
                    /\ (n < r.max /\ ~LastOfStream(i)) => BoundaryAt(from + n)

\* With a staging buffer of one byte, a chunk that ends at a match at its
\* min-th byte, shorter than max and not the last one of the stream.
C18_Witness ==
    /\ fresh /\ Bound /\ EndsWithEOF(src0)
    /\ bufLen(r) = 1
    /\ \E i \in 1..Len(hist) :
          /\ hist[i].chunk
          /\ Len(hist[i].data) = r.min
          /\ r.min < r.max
          /\ ~LastOfStream(i)
          /\ BoundaryAt(Len(Concat(SubSeq(hist, 1, i))))

\* The bytes of the window from the oldest to the newest: r.wpos is where
\* the next byte goes, which is where the oldest one is.
WindowBytes(c) ==
    [i \in 1..winSize |-> c.window[((c.wpos + i - 1) % winSize) + 1]]

\* appendByte folded over the bytes bs from the digest h.
RECURSIVE FoldAppend(_, _)
FoldAppend(h, bs) ==
    IF bs = <<>> \/ h \notin SUBSET WordBits THEN h
    ELSE FoldAppend(appendByte(h, Head(bs), defaultPoly), Tail(bs))

\* Claim C19 (rolling-fingerprint identity): on a freshly constructed
\* chunker, after Reset and any number of slides, the digest is appendByte
\* (shift by 8, or the byte in, reduce modulo the polynomial) folded from
\* the zero digest over the winSize bytes of the window from the oldest to
\* the newest: the remainder of the window modulo the polynomial.
C19_RollingIdentity == r.digest = FoldAppend({}, WindowBytes(r))

\* The sentinel of Reset has left the window, bytes other than 0 are still
\* in it.
C19_Witness ==
    /\ slid = winSize
    /\ r.window[2] /= 0
    /\ r.window[3] /= 0
    /\ r.digest /= {}

\* Bytes appended to a digest to compare the two ways of appending.
ByteSamples == {0, 1, 16, 128, 255}

\* The table-driven append of b to the digest D gives appendByte(D, b, poly).
TableAppendOK(D, b) ==
    append([r EXCEPT !.digest = D], b).digest = appendByte(D, b, defaultPoly)

\* Claim C20 (table-driven append equals long division): for a digest D
\* with deg(D) < deg(poly) and a byte b, append(b), which is
\* D <- ((D << 8) | b) XOR mod[D >> (deg(poly) - 8)], gives
\* appendByte(D, b, poly) = mod((D << 8) | b, poly).  The digests are the
\* ones a chunker has between two slides and the ones slide hands to
\* append, after the byte that leaves the window is taken out.
C20_TableAppend ==
    LET D1 == r.digest
        D2 == Xor(r.digest, Tables.out[r.window[r.wpos + 1]])
    IN  /\ deg(D1) < deg(defaultPoly)
        /\ deg(D2) < deg(defaultPoly)
        /\ \A b \in ByteSamples : TableAppendOK(D1, b) /\ TableAppendOK(D2, b)

\* A digest whose top 8 bits are not 0, so that appending to it takes a
\* reduction, reached by appends that took one.
C20_Witness ==
    /\ slid > 8
    /\ ByteOf(Shr(r.digest, shift)) /= 0

\* A small edit of a stream: del bytes after the first at bytes are replaced
\* by the bytes ins.
MaxEdit == 3
Edits ==
    {[at |-> 0, del |-> k, ins |-> [i \in 1..m |-> 16]] :
        k \in 0..1, m \in 0..MaxEdit} \ {[at |-> 0, del |-> 0, ins |-> <<>>]}
Edited(S, e) ==
    SubSeq(S, 1, e.at) \o e.ins \o SubSeq(S, e.at + e.del + 1, Len(S))
Shift(e) == Len(e.ins) - e.del

\* The chunk boundaries of a run: the offset each chunk ends at, with the
\* fingerprint of the chunk.
RECURSIVE SumLen(_, _, _)
SumLen(h, a, b) ==
    IF a > b THEN 0
    ELSE IF a = b THEN Len(h[a].data)
    ELSE SumLen(h, a, (a + b) \div 2) + SumLen(h, ((a + b) \div 2) + 1, b)

Marks(h) ==
    {<<SumLen(h, 1, i), h[i].cut>> : i \in {j \in 1..Len(h) : h[j].chunk}}
Offsets(h) == {m[1] : m \in Marks(h)}

\* The run on the edited stream, with the chunker's parameters.
RunEdited(e) ==
    nextAll(Reset(NewRabinWithParams(r.min, r.max, bufLen(r)),
                  LongReader(Edited(src0.data, e)))).hist

\* The boundaries of the run on S from p on are boundaries of the run on T,
\* d bytes further, with the same fingerprints.
SameFrom(mS, mT, p, d) ==
    \A q \in mS : q[1] >= p => <<q[1] + d, q[2]>> \in mT

ResyncFrom(mS, hT, e) ==
    \A p \in mS :
        (p[1] >= e.at + e.del + winSize /\ (p[1] + Shift(e)) \in Offsets(hT))
            => SameFrom(mS, Marks(hT), p[1], Shift(e))

\* Claim C16 (resync, as it holds): for a stream T obtained from S by a
\* small edit, if the runs on S and on T with the same (min, max) have a
\* chunk boundary at corresponding offsets at least winSize bytes after the
\* edit, then that boundary and every later one of the run on S is a
\* boundary of the run on T at the shifted offset, with the same
\* fingerprint.
C16_ResyncAfterWindow ==
    (Bound /\ hist /= <<>>) =>
        \A e \in Edits : ResyncFrom(Marks(hist), RunEdited(e), e)

\* Boundaries that the edit moved, and, more than winSize bytes after it, a
\* common boundary with several boundaries after it, the streams differing
\* in length.
ResyncSeen(mS, hT, e) ==
    /\ Shift(e) /= 0
    /\ \E q \in Offsets(hist) : (q + Shift(e)) \notin Offsets(hT)
    /\ \E p \in mS :
          /\ p[1] >= e.at + e.del + winSize
          /\ (p[1] + Shift(e)) \in Offsets(hT)
          /\ Cardinality({q \in mS : q[1] > p[1]}) >= 2

C16_Witness ==
    /\ Bound /\ hist /= <<>>
    /\ r.min < r.max
    /\ \E e \in Edits : ResyncSeen(Marks(hist), RunEdited(e), e)

\* Claim C16 (resync, as stated): for a stream T obtained from S by a small
\* edit inside the span of the first chunk of S, every chunk boundary of the
\* run on S after the second chunk is a chunk boundary of the run on T at
\* the shifted offset.
DistantKept(h, hT, e) ==
    \A q \in Offsets(h) :
        q > SumLen(h, 1, 2) => (q + Shift(e)) \in Offsets(hT)

C16_Resync ==
    (Bound /\ Len(hist) > 2) =>
        \A e \in Edits :
            e.at + e.del <= Len(hist[1].data) => DistantKept(hist, RunEdited(e), e)


\* The last winSize bytes of what a chunker has slid after Reset when the
\* bytes bs of the stream have gone through it: the sentinel of Reset, then
\* bs.
LastWindow(bs) ==
    IF Len(bs) + 1 <= winSize THEN <<1>> \o bs
    ELSE SubSeq(bs, Len(bs) - winSize + 1, Len(bs))

\* The digest of a chunker that was never Reset and slides those bytes, and
\* nothing else, into its window of zeros.
WindowDigest(bs) == SlideAll(NewRabinWithParams(1, 1, 1), LastWindow(bs)).digest

\* The chunk hist[i] ends within the stream, and its cut is the digest of
\* the last winSize bytes of the stream up to its last byte.
CutIsLocal(i) ==
    /\ SumLen(hist, 1, i) <= Len(src0.data)
    /\ hist[i].cut = WindowDigest(SubSeq(src0.data, 1, SumLen(hist, 1, i)))

\* Claim C21 (cut locality): the cut of every returned chunk is the digest
\* after the slide of the chunk's last byte, the digest and the window being
\* carried from chunk to chunk: it is the digest of the last winSize bytes
\* of the stream up to and including the chunk's last byte (with the
\* sentinel of Reset while fewer than winSize bytes have been consumed),
\* wherever the earlier chunks ended.
C21_CutLocality ==
    Bound => \A i \in 1..Len(hist) : hist[i].chunk => CutIsLocal(i)


\* rabin.Next, the refill at its start, before r.lastChunk = buf[:0]:
\* if r.end == 0 || r.bpos == r.end { if !r.updateBuf() { ... } }
Refilled(c) == IF c.end = 0 \/ c.bpos = c.end THEN updateBuf(c).r ELSE c

\* The array under the slice s once the chunker's slice has become t by
\* appends: the array of t when they were made in place (an append that
\* allocates gives a longer array and leaves the old one as it was).
ArrayAfter(s, t) == IF Len(t.mem) = Len(s.mem) THEN t.mem ELSE s.mem

\* The bytes of the chunk returned last, as they are in its array after the
\* refill at the start of the next Next call.
LastChunkKept ==
    SubSeq(ArrayAfter(r.lastChunk, Refilled(r).lastChunk), 1, r.lastChunk.len)

\* Claim C22 (returned chunks own their data): the bytes of the data of the
\* chunk returned last are not changed by the next Next call, given nil or
\* a buffer of its own: the refill at its start appends to the chunker's
\* slice over the chunk's array, after the chunk's bytes, and the call
\* then takes the buffer it was given.
C22_OwnsData ==
    (Bound /\ hist /= <<>> /\ hist[Len(hist)].chunk) =>
        LastChunkKept = hist[Len(hist)].data

\* The chunk returned last lies in a buffer of the caller with room after
\* it, and the refill of the next call writes into that room.
C22_Witness ==
    /\ Bound /\ hist /= <<>> /\ hist[Len(hist)].chunk
    /\ r.lastChunk.caller
    /\ Refilled(r).lastChunk.caller
    /\ Refilled(r).lastChunk.mem /= r.lastChunk.mem
    /\ LastChunkKept = hist[Len(hist)].data


\* The results of k Next(nil) calls on gear chunker c.
RECURSIVE GearRun(_, _)
GearRunStep(res, k) ==
    IF res.panic THEN <<Result(res)>>
    ELSE <<Result(res)>> \o GearRun(res.r, k - 1)

GearRun(c, k) == IF k = 0 THEN <<>> ELSE GearRunStep(gearNext(c, NilSlice), k)

\* The results of k Next(nil) calls on a gear chunker made as r was, Reset
\* on a reader that delivers the bytes of src0 and then end-of-stream.
GearTwin(k) ==
    GearRun(gearReset(NewGear(r.table, Len(r.buf)),
                      NewReader(src0.data, EOF, FALSE, MaxLen + 1)), k)

GearErrResult(e) == [chunk |-> FALSE, data |-> <<>>, cut |-> <<0, 0>>,
                     err |-> e, panic |-> FALSE]

\* The results a reader that fails after its bytes must give: the chunks of
\* the same bytes that end at a boundary, then the error, again and again.
RECURSIVE GearExpect(_, _)
GearExpect(twin, e) ==
    IF twin /= <<>> /\ twin[1].chunk /\ gearAtBoundary(twin[1].cut)
    THEN <<Seen(twin[1])>> \o GearExpect(Tail(twin), e)
    ELSE [i \in 1..Len(twin) |-> GearErrResult(e)]

GearDiscards ==
    LET expect == GearExpect(GearTwin(Len(hist)), ErrRead)
    IN  \A i \in 1..Len(hist) : Seen(hist[i]) = expect[i]

\* Claim C23 (Gear reassembly and failure discipline): for a stream that
\* ends with end-of-stream, when Next returns end-of-stream the data of the
\* chunks returned before it, concatenated, are the stream, chunks that
\* span several fills of the staging buffer included; for a reader that
\* fails after its bytes with another error, Next returns the chunks that
\* end at a boundary within those bytes, and then, on the call that runs
\* out of bytes and on every later one, the error and no chunk.
C23_GearDiscipline ==
    Bound =>
        /\ EndsWithEOF(src0) =>
              \A i \in 1..Len(hist) :
                  hist[i].err = EOF =>
                      Concat(SubSeq(hist, 1, i - 1)) = src0.data
        /\ src0.term = ErrRead => GearDiscards

\* A chunk that spans several fills, then the error of the reader twice,
\* bytes of the stream having been discarded.
C23_Witness ==
    /\ Bound /\ src0.term = ErrRead
    /\ Len(hist) = 3
    /\ hist[1].chunk /\ Len(hist[1].data) > Len(r.buf)
    /\ hist[2].err = ErrRead /\ hist[3].err = ErrRead
    /\ Len(hist[1].data) < Len(src0.data)


\* D <- ((D << 1) + table[b]) mod 2^32 for the bytes bs one after the other.
RECURSIVE GearFold(_, _)
GearFold(D, bs) ==
    IF bs = <<>> THEN D
    ELSE GearFold(ShlAdd(D, r.table[Head(bs)]), Tail(bs))

\* The digest after Reset (the update for the byte 1 from the digest 0) and
\* the first k bytes of the stream.
GearDigestAt(k) ==
    GearFold(ShlAdd(<<0, 0>>, r.table[1]), SubSeq(src0.data, 1, k))

\* The chunk hist[i] ends within the stream with the digest of the bytes up
\* to its end, no byte of it before the last one is a boundary, and its
\* last byte is one unless the stream ends there.
GearEndsAtFirst(i) ==
    /\ SumLen(hist, 1, i) <= Len(src0.data)
    /\ hist[i].cut = GearDigestAt(SumLen(hist, 1, i))
    /\ \A k \in (SumLen(hist, 1, i - 1) + 1)..(SumLen(hist, 1, i) - 1) :
          ~gearAtBoundary(GearDigestAt(k))
    /\ SumLen(hist, 1, i) < Len(src0.data) => gearAtBoundary(hist[i].cut)

\* Claim C24 (Gear boundary rule): the Gear digest is updated for every
\* byte as D <- ((D << 1) + table[b]) mod 2^32 from Reset on, not reset
\* between chunks, and every Gear chunk other than the last of the stream
\* ends at the first byte, counted from the start of the chunk, after
\* whose update D & mask = 0, with no minimum and no maximum length.
C24_GearBoundary ==
    Bound => \A i \in 1..Len(hist) : hist[i].chunk => GearEndsAtFirst(i)

\* A chunk of one byte and after it a longer chunk that ends at a boundary
\* before the end of the stream.
C24_Witness ==
    /\ Bound
    /\ Len(hist) >= 2
    /\ hist[1].chunk /\ Len(hist[1].data) = 1
    /\ hist[2].chunk /\ Len(hist[2].data) >= 2
    /\ SumLen(hist, 1, 2) < Len(src0.data)
    /\ hist[2].cut /= <<0, 0>>


\* The loop of TestLazyBuf_Next has come to its end.
LazyDone == ~fresh /\ r.err /= Nil

\* Claim C25 (LazyBuf delivers the whole stream before it signals its
\* end): for a source of any length, after the first Update, the bytes
\* returned by the Next calls made while the latched error is nil are the
\* bytes of the source in order and nothing else, and the data handed to
\* onUpdate over all refills, concatenated, are the bytes of the source.
C25_LazyDelivers ==
    LazyDone => (hist = src0.data /\ r.result = src0.data)


\* Claim C26 (staging-cursor invariant): for any reader and any sequence
\* of Reset and Next calls, every staging byte Next reads was delivered by
\* the last fill, and no index or slice of the staging buffer is out of
\* range.  (A read of buf[bpos] is followed by bpos++: reads below end
\* leave bpos <= end; an index or a slice out of range is a panic.)
C26_StagingCursor ==
    /\ ~panicked
    /\ 0 <= r.start
    /\ r.bpos <= r.end
    /\ r.end <= bufLen(r)


\* The digest D is a fully reduced remainder, the index append takes from
\* it is a byte without truncation, and the shift by 8 keeps every bit.
Reduced(D) ==
    /\ deg(D) < deg(defaultPoly)
    /\ Shr(D, shift) \subseteq 0..7
    /\ Cardinality(Shl(D, 8)) = Cardinality(D)

\* Claim C27 (digest bound): on a freshly constructed chunker, after Reset
\* and after every slide, deg(digest) < deg(poly) = 53; the table index
\* digest >> (deg(poly) - 8) lies in 0..255 and the 64-bit shift by 8 of
\* append loses no set bit, for the digest between two slides and for the
\* digest the next slide hands to append.
C27_DigestBound ==
    /\ deg(defaultPoly) = 53
    /\ Reduced(r.digest)
    /\ Reduced(Xor(r.digest, Tables.out[r.window[r.wpos + 1]]))

\* A digest of the highest degree a remainder has, after the sentinel of
\* Reset has left the window.
C27_Witness ==
    /\ slid > winSize
    /\ deg(r.digest) = deg(defaultPoly) - 1

=============================================================================
